---- MODULE Spec2Model ----
(***************************************************************************)
(* Model of the hybrid movie recommender of app.py:                        *)
(* load_and_process_movies (encoder vocabulary and neighbour index built   *)
(* once from the catalog) and recommend_movies_for_user (tailored pool     *)
(* from the 200 nearest neighbours, diversified pool from the whole        *)
(* catalog, merge, de-duplication and final ordering).                     *)
(*                                                                         *)
(* Number conventions.  averageRating and min_rating are carried in tenths *)
(* (85 is 8.5), so rating_score = averageRating/10 is rating/100.  A       *)
(* similarity is the pair [dot, n2] standing for dot/sqrt(n2); a           *)
(* runtime_score is carried by its denominator 1 + |runtime - watch|; a    *)
(* total_score is [num, surd, den] standing for                            *)
(* num / (100 * sqrt(surd) * den).  All comparisons are exact in the       *)
(* reals; binary floating point rounding is not modelled.                  *)
(***************************************************************************)
EXTENDS Integers, Sequences, FiniteSets, TLC

VARIABLES movies, mlb, nn_model, df_users, tieOrder,
          pc, args, outcome, tailored_df, diverse_df, final_recs, memo

vars == <<movies, mlb, nn_model, df_users, tieOrder,
          pc, args, outcome, tailored_df, diverse_df, final_recs, memo>>

\* ------------------------------------------------------------------ bounds
\* Number of catalog rows beyond the 200 the neighbour query asks for.
MaxExtra == 1
\* Size of the catalog of the end-to-end example (fewer rows than N_NEIGHBORS).
SmallCatalog == 2

\* ------------------------------------------------------- program constants
N_NEIGHBORS == 200
\* A rating absent after the left merge / not numeric after to_numeric.
NaN == -1

\* ------------------------------------------------------------ small helpers
Min(a, b) == IF a <= b THEN a ELSE b
Max(a, b) == IF a >= b THEN a ELSE b
Abs(x) == IF x >= 0 THEN x ELSE -x
ToSet(s) == {s[i] : i \in DOMAIN s}
Reverse(s) == [i \in 1..Len(s) |-> s[Len(s) + 1 - i]]

\* Python's int() on the float n * (num/den): truncation toward zero.
Trunc(a, b) == IF a >= 0 THEN a \div b ELSE -((-a) \div b)

\* ------------------------------------------------------------- input data
\* Catalog rows cycle through these archetypes after the first row.
Archetypes ==
  << [genres_list |-> <<"Drama">>,           runtimeMinutes |-> 121, averageRating |-> 70],
     [genres_list |-> <<"Action", "Drama">>, runtimeMinutes |-> 118, averageRating |-> NaN],
     [genres_list |-> <<"Comedy">>,          runtimeMinutes |-> 120, averageRating |-> 60],
     [genres_list |-> <<"Action">>,          runtimeMinutes |-> 120, averageRating |-> 85] >>

HeadGenres == {<<"Action">>, <<"Drama", "Comedy">>}
HeadRatings == {NaN, 90}
HeadRuntimes == {120, 122}

CatalogSizes == {SmallCatalog, N_NEIGHBORS, N_NEIGHBORS + MaxExtra}

Catalog(size, head) ==
  [i \in 1..size |->
     IF i = 1
       THEN [tconst |-> 1, genres_list |-> head.genres_list,
             runtimeMinutes |-> head.runtimeMinutes,
             averageRating |-> head.averageRating]
       ELSE LET a == Archetypes[((i - 2) % Len(Archetypes)) + 1]
            IN  [tconst |-> i, genres_list |-> a.genres_list,
                 runtimeMinutes |-> a.runtimeMinutes,
                 averageRating |-> a.averageRating]]

\* custom_users.csv, with the comma-joined columns already split and stripped.
CustomUsers ==
  << [user_id |-> "user_action", preferred_genres |-> <<"Action">>,
      average_watch_time |-> 120, favorite_movies |-> <<1, 5>>],
     [user_id |-> "user_drama", preferred_genres |-> <<"Drama", "Comedy">>,
      average_watch_time |-> 120, favorite_movies |-> <<>>],
     [user_id |-> "user_western", preferred_genres |-> <<"Western">>,
      average_watch_time |-> 121, favorite_movies |-> <<999>>] >>

UserIds == {"user_action", "user_drama", "user_western", "user_ghost"}
NRecommendations == {-1, 0, 2, 3}
\* diversified_ratio as num/den; every value is exact in binary floating point.
Ratios == {[num |-> 0, den |-> 1], [num |-> 1, den |-> 2],
           [num |-> 1, den |-> 1], [num |-> 3, den |-> 2]}
MinRatings == {0, 70}

Requests ==
  [user_id : UserIds, n_recommendations : NRecommendations,
   diversified_ratio : Ratios, min_rating : MinRatings]

NoArgs == [user_id |-> "", n_recommendations |-> 0,
           diversified_ratio |-> [num |-> 0, den |-> 1], min_rating |-> 0]

\* ------------------------------------------------- load_and_process_movies
\* MultiLabelBinarizer.fit: the vocabulary is the set of labels seen.
MlbFit(catalog) ==
  UNION {ToSet(catalog[i].genres_list) : i \in DOMAIN catalog}

\* MultiLabelBinarizer.transform: the coordinates set to 1; labels outside the
\* vocabulary are ignored.
MlbTransform(classes, genres) == ToSet(genres) \cap classes

\* NearestNeighbors.fit keeps the encoded rows.
NnFit(classes, catalog) ==
  [i \in DOMAIN catalog |-> MlbTransform(classes, catalog[i].genres_list)]

\* ------------------------------------------------------------- arithmetic
\* Cosine similarity of two binary vectors; 0 when either is the zero vector.
CosineSimilarity(u, v) ==
  IF u = {} \/ v = {}
    THEN [dot |-> 0, n2 |-> 1]
    ELSE [dot |-> Cardinality(u \cap v), n2 |-> Cardinality(u) * Cardinality(v)]

\* a < b for similarities.
SimLess(a, b) == a.dot * a.dot * b.n2 < b.dot * b.dot * a.n2

\* a < b for total scores.
ScoreLess(a, b) ==
  (a.num * b.den) * (a.num * b.den) * b.surd
    < (b.num * a.den) * (b.num * a.den) * a.surd

ScoreEq(a, b) == ~ScoreLess(a, b) /\ ~ScoreLess(b, a)

RECURSIVE Buckets(_, _)
\* The [row, rank] pairs of ranked grouped by rank, ranks ascending, each
\* group in the order of ranked.
Buckets(ranked, ranks) ==
  IF ranks = {} THEN <<>>
  ELSE LET r == CHOOSE x \in ranks : \A y \in ranks : x <= y
       IN  SelectSeq(ranked, LAMBDA p : p.rank = r)
             \o Buckets(ranked, ranks \ {r})

\* The order a sort leaves among equal keys is fixed by the library build:
\* "first" keeps the input order, "last" reverses it.
TieArrange(df, tie) == IF tie = "first" THEN df ELSE Reverse(df)

\* DataFrame.sort_values('total_score', ascending=False).
SortValues(df, tie) ==
  LET keys == {df[i].total_score : i \in DOMAIN df}
      rankOf == [k \in keys |-> Cardinality({k2 \in keys : ScoreLess(k, k2)})]
      ranks == {rankOf[k] : k \in keys}
      arranged == TieArrange(df, tie)
      ranked == [i \in 1..Len(arranged) |->
                   [row |-> arranged[i], rank |-> rankOf[arranged[i].total_score]]]
      sorted == Buckets(ranked, ranks)
  IN  [i \in 1..Len(sorted) |-> sorted[i].row]

\* DataFrame.head(k): the first k rows, or all but the last |k| when k < 0.
HeadRows(df, k) ==
  IF k >= 0 THEN SubSeq(df, 1, Min(k, Len(df)))
            ELSE SubSeq(df, 1, Max(Len(df) + k, 0))

\* --------------------------------------------------- NearestNeighbors query
\* 1 - x, kept symbolic: OneMinus(OneMinus(s)) is s.
CosineDistance(u, v) == [one_minus |-> CosineSimilarity(u, v)]
OneMinus(d) == d.one_minus

\* kneighbors(user_vector, n_neighbors=k) of the brute-force cosine index:
\* the k rows of smallest distance, ascending; defined only for k <= rows.
KNeighbors(fitX, u, k, tie) ==
  LET cand == [i \in DOMAIN fitX |->
                 [index |-> i, distance |-> CosineDistance(u, fitX[i])]]
      keys == {cand[i].distance.one_minus : i \in DOMAIN cand}
      rankOf == [s \in keys |-> Cardinality({s2 \in keys : SimLess(s, s2)})]
      ranks == {rankOf[s] : s \in keys}
      arranged == TieArrange(cand, tie)
      ranked == [i \in 1..Len(arranged) |->
                   [row |-> arranged[i],
                    rank |-> rankOf[arranged[i].distance.one_minus]]]
      sorted == Buckets(ranked, ranks)
  IN  [i \in 1..Min(k, Len(sorted)) |-> sorted[i].row]

\* ------------------------------------------------ recommend_movies_for_user
\* df_users[df_users['user_id'] == user_id]
UserRows(users, user_id) == SelectSeq(users, LAMBDA u : u.user_id = user_id)

\* movies.iloc[indices[0]].copy() with similarity = 1 - distances[0]
TailoredCandidates(catalog, knn) ==
  [j \in 1..Len(knn) |->
     [tconst |-> catalog[knn[j].index].tconst,
      genres_list |-> catalog[knn[j].index].genres_list,
      runtimeMinutes |-> catalog[knn[j].index].runtimeMinutes,
      averageRating |-> catalog[knn[j].index].averageRating,
      similarity |-> OneMinus(knn[j].distance)]]

\* Faulty variant of ExcludeFavorites: the favourites stay in the pool.
ExcludeFavoritesKeepsAll(df, favorite_movies) == df

\* df[~df['tconst'].isin(favorite_movies)]
ExcludeFavorites(df, favorite_movies) ==
  SelectSeq(df, LAMBDA row : row.tconst \notin ToSet(favorite_movies))

\* pd.to_numeric(..., errors='coerce').fillna(0)
ToNumericFillna(x) == IF x = NaN THEN 0 ELSE x

\* Denominator of runtime_score = 1 / (1 + |runtimeMinutes - watch|).
RuntimeScore(runtimeMinutes, user_watch_time) ==
  1 + Abs(runtimeMinutes - user_watch_time)

\* Numerator of rating_score = averageRating / 10.0 (in hundredths).
RatingScore(averageRating) == averageRating

\* similarity * rating_score * runtime_score
TailoredTotal(similarity, rating_score, runtime_score) ==
  [num |-> similarity.dot * rating_score, surd |-> similarity.n2,
   den |-> runtime_score]

\* Faulty variant of DiverseTotal: the product keeps a similarity factor of 0.
DiverseTotalTimesZeroSimilarity(rating_score, runtime_score) ==
  [num |-> 0 * rating_score, surd |-> 1, den |-> runtime_score]

\* rating_score * runtime_score
DiverseTotal(rating_score, runtime_score) ==
  [num |-> rating_score, surd |-> 1, den |-> runtime_score]

ScoreTailored(df, user_watch_time) ==
  [j \in 1..Len(df) |->
     LET rating == ToNumericFillna(df[j].averageRating)
         rt == RuntimeScore(df[j].runtimeMinutes, user_watch_time)
         rs == RatingScore(rating)
     IN  [tconst |-> df[j].tconst, genres_list |-> df[j].genres_list,
          runtimeMinutes |-> df[j].runtimeMinutes, averageRating |-> rating,
          similarity |-> df[j].similarity, runtime_score |-> rt,
          rating_score |-> rs,
          total_score |-> TailoredTotal(df[j].similarity, rs, rt)]]

\* The similarity column is absent from the diversified rows (NaN after concat).
NoSimilarity == [dot |-> 0, n2 |-> 0]

ScoreDiverse(df, user_watch_time) ==
  [j \in 1..Len(df) |->
     LET rating == ToNumericFillna(df[j].averageRating)
         rt == RuntimeScore(df[j].runtimeMinutes, user_watch_time)
         rs == RatingScore(rating)
     IN  [tconst |-> df[j].tconst, genres_list |-> df[j].genres_list,
          runtimeMinutes |-> df[j].runtimeMinutes, averageRating |-> rating,
          similarity |-> NoSimilarity, runtime_score |-> rt,
          rating_score |-> rs,
          total_score |-> DiverseTotal(rs, rt)]]

\* Faulty variant of FilterMinRating: the rating threshold is not applied.
FilterMinRatingOff(df, min_rating) == df

\* df[df['averageRating'] >= min_rating]
FilterMinRating(df, min_rating) ==
  SelectSeq(df, LAMBDA row : row.averageRating >= min_rating)

\* Faulty variant of NoPreferredGenre: any() in place of all().
SomeGenreNotPreferred(catalog, preferred_genres) ==
  SelectSeq(catalog, LAMBDA row :
    \E g \in ToSet(row.genres_list) : g \notin ToSet(preferred_genres))

\* movies[genres_list.apply(all(g not in preferred_genres for g in genres))]
NoPreferredGenre(catalog, preferred_genres) ==
  SelectSeq(catalog, LAMBDA row :
    \A g \in ToSet(row.genres_list) : g \notin ToSet(preferred_genres))

NumDiverse(n_recommendations, diversified_ratio) ==
  Trunc(n_recommendations * diversified_ratio.num, diversified_ratio.den)

\* Faulty variant of NumTailored: the diversified share is not subtracted.
NumTailoredWhole(n_recommendations, num_diverse) == n_recommendations

NumTailored(n_recommendations, num_diverse) == n_recommendations - num_diverse

RECURSIVE DropDuplicatesFrom(_, _, _, _)
\* Rows lo..hi of df whose id is neither in seen nor on an earlier row.
DropDuplicatesFrom(df, lo, hi, seen) ==
  IF lo > hi THEN <<>>
  ELSE IF lo = hi
    THEN IF df[lo].tconst \in seen THEN <<>> ELSE <<df[lo]>>
    ELSE LET mid == (lo + hi) \div 2
         IN  DropDuplicatesFrom(df, lo, mid, seen)
               \o DropDuplicatesFrom(df, mid + 1, hi,
                    seen \cup {df[i].tconst : i \in lo..mid})

\* Faulty variant of DropDuplicates: the concatenation is returned as it is.
KeepDuplicates(df) == df

\* DataFrame.drop_duplicates(subset='tconst'): the first row of each id stays.
DropDuplicates(df) == DropDuplicatesFrom(df, 1, Len(df), {})

\* pd.concat([tailored_recs, diverse_recs]).drop_duplicates(...).sort_values(...)
Combine(tailored_recs, diverse_recs, tie) ==
  SortValues(DropDuplicates(tailored_recs \o diverse_recs), tie)

\* final_recs[['tconst', ..., 'averageRating', 'total_score']]
Returned(df) ==
  [j \in 1..Len(df) |->
     [tconst |-> df[j].tconst, genres_list |-> df[j].genres_list,
      runtimeMinutes |-> df[j].runtimeMinutes,
      averageRating |-> df[j].averageRating,
      total_score |-> df[j].total_score]]

\* The tailored pool: lines 124-144.
TailoredPool(catalog, classes, fitX, user_row, min_rating, tie) ==
  LET user_vector == MlbTransform(classes, user_row.preferred_genres)
      knn == KNeighbors(fitX, user_vector, N_NEIGHBORS, tie)
      nearest == TailoredCandidates(catalog, knn)
      kept == ExcludeFavorites(nearest, user_row.favorite_movies)
      scored == ScoreTailored(kept, user_row.average_watch_time)
  IN  SortValues(FilterMinRating(scored, min_rating), tie)

\* The diversified pool: lines 153-161.
DiversePool(catalog, user_row, min_rating, tie) ==
  LET other == NoPreferredGenre(catalog, user_row.preferred_genres)
      kept == ExcludeFavorites(other, user_row.favorite_movies)
      scored == ScoreDiverse(kept, user_row.average_watch_time)
  IN  SortValues(FilterMinRating(scored, min_rating), tie)

\* Faulty variant of MoviesAfterCall: fillna(0) is written into movies itself.
MoviesAfterCallInPlace(catalog) ==
  [i \in DOMAIN catalog |->
     [catalog[i] EXCEPT !.averageRating = ToNumericFillna(@)]]

\* The catalog after a call: both pools are built on .copy() frames, so the
\* column assignments of the call never reach movies.
MoviesAfterCall(catalog) == catalog

\* ------------------------------------------------------------------ state
\* memo remembers the first evaluated request and what it returned; stage is
\* 0 before it, 1 after it, 2 once a different request has been evaluated
\* since, 3 once the first request has been evaluated again after that.
NoMemo == [on |-> FALSE, stage |-> 0, args |-> NoArgs,
           returned |-> [outcome |-> "none", rows |-> <<>>]]

Init ==
  /\ \E size \in CatalogSizes,
        head \in [genres_list : HeadGenres, runtimeMinutes : HeadRuntimes,
                  averageRating : HeadRatings] :
       /\ movies = Catalog(size, head)
       /\ mlb = MlbFit(Catalog(size, head))
       /\ nn_model = NnFit(MlbFit(Catalog(size, head)), Catalog(size, head))
  /\ df_users = CustomUsers
  /\ tieOrder \in {"first", "last"}
  /\ pc = "idle"
  /\ args = NoArgs
  /\ outcome = "none"
  /\ tailored_df = <<>>
  /\ diverse_df = <<>>
  /\ final_recs = <<>>
  /\ memo = NoMemo

\* The caller invokes recommend_movies_for_user with its arguments.
Call ==
  /\ pc = "idle"
  /\ \E req \in Requests : args' = req
  /\ pc' = "called"
  /\ outcome' = "none"
  /\ tailored_df' = <<>>
  /\ diverse_df' = <<>>
  /\ final_recs' = <<>>
  /\ UNCHANGED <<movies, mlb, nn_model, df_users, tieOrder, memo>>

Remember(m, a, out, rows) ==
  IF ~m.on THEN m
  ELSE IF m.stage = 0
    THEN [on |-> TRUE, stage |-> 1, args |-> a,
          returned |-> [outcome |-> out, rows |-> Returned(rows)]]
  ELSE IF m.stage = 1 /\ a # m.args THEN [m EXCEPT !.stage = 2]
  ELSE IF m.stage = 2 /\ a = m.args THEN [m EXCEPT !.stage = 3]
  ELSE m

\* The body of recommend_movies_for_user, from entry to return or raise.
Recommend ==
  /\ pc = "called"
  /\ pc' = "idle"
  /\ LET rows == UserRows(df_users, args.user_id) IN
     IF rows = <<>>
       THEN \* .iloc[0] on an empty selection
            /\ outcome' = "IndexError"
            /\ UNCHANGED <<tailored_df, diverse_df, final_recs>>
       ELSE IF N_NEIGHBORS > Len(nn_model)
         THEN \* kneighbors: n_neighbors exceeds the fitted rows
              /\ outcome' = "ValueError"
              /\ UNCHANGED <<tailored_df, diverse_df, final_recs>>
         ELSE LET user_row == rows[1]
                  tpool == TailoredPool(movies, mlb, nn_model, user_row,
                                        args.min_rating, tieOrder)
                  num_diverse == NumDiverse(args.n_recommendations,
                                            args.diversified_ratio)
                  num_tailored == NumTailored(args.n_recommendations, num_diverse)
                  dpool == DiversePool(movies, user_row, args.min_rating, tieOrder)
              IN  /\ outcome' = "ok"
                  /\ tailored_df' = tpool
                  /\ diverse_df' = dpool
                  /\ final_recs' = Combine(HeadRows(tpool, num_tailored),
                                           HeadRows(dpool, num_diverse), tieOrder)
  /\ memo' = Remember(memo, args, outcome', final_recs')
  /\ movies' = MoviesAfterCall(movies)
  /\ UNCHANGED <<mlb, nn_model, df_users, tieOrder, args>>

Next == Call \/ Recommend

Spec == Init /\ [][Next]_vars

\* ------------------------------------------------- repeated-request runs
\* Runs that remember the first evaluated request and its result, over one
\* catalog larger than the neighbour query and a narrower set of requests.
RepeatRequests ==
  [user_id : {"user_action", "user_western", "user_ghost"},
   n_recommendations : {-1, 2},
   diversified_ratio : {[num |-> 1, den |-> 2], [num |-> 3, den |-> 2]},
   min_rating : {70}]

InitRepeat ==
  /\ \E head \in [genres_list : {<<"Action">>}, runtimeMinutes : {120},
                  averageRating : HeadRatings] :
       LET catalog == Catalog(N_NEIGHBORS + MaxExtra, head) IN
       /\ movies = catalog
       /\ mlb = MlbFit(catalog)
       /\ nn_model = NnFit(MlbFit(catalog), catalog)
  /\ df_users = CustomUsers
  /\ tieOrder \in {"first", "last"}
  /\ pc = "idle"
  /\ args = NoArgs
  /\ outcome = "none"
  /\ tailored_df = <<>>
  /\ diverse_df = <<>>
  /\ final_recs = <<>>
  /\ memo = [NoMemo EXCEPT !.on = TRUE]

CallRepeat ==
  /\ pc = "idle"
  /\ \E req \in RepeatRequests : args' = req
  /\ pc' = "called"
  /\ outcome' = "none"
  /\ tailored_df' = <<>>
  /\ diverse_df' = <<>>
  /\ final_recs' = <<>>
  /\ UNCHANGED <<movies, mlb, nn_model, df_users, tieOrder, memo>>

NextRepeat == CallRepeat \/ Recommend

SpecRepeat == InitRepeat /\ [][NextRepeat]_vars

\* ================================================================ claims
Returnedp == pc = "idle" /\ outcome # "none"
Completed == pc = "idle" /\ outcome = "ok"
UserKnown == \E i \in DOMAIN df_users : df_users[i].user_id = args.user_id
UserRow ==
  df_users[CHOOSE i \in DOMAIN df_users :
             /\ df_users[i].user_id = args.user_id
             /\ \A j \in 1..(i - 1) : df_users[j].user_id # args.user_id]
RatioInRange ==
  /\ 0 <= args.diversified_ratio.num
  /\ args.diversified_ratio.num <= args.diversified_ratio.den
ValidParams == args.n_recommendations > 0 /\ RatioInRange
\* The catalog row of an id (Catalog numbers its rows by position).
MovieOf(tconst) == movies[tconst]
RatingOf(tconst) ==
  IF MovieOf(tconst).averageRating = NaN THEN 0 ELSE MovieOf(tconst).averageRating
Ids(df) == {df[i].tconst : i \in DOMAIN df}
FromTailored(df) == SelectSeq(df, LAMBDA row : row.similarity # NoSimilarity)
FromDiverse(df) == SelectSeq(df, LAMBDA row : row.similarity = NoSimilarity)
FloorDiverse ==
  (args.n_recommendations * args.diversified_ratio.num)
    \div args.diversified_ratio.den

\* C1: no row of the result, of the tailored pool or of the diversified pool
\* carries an item id of the user's favorite_movies.
C1_NoFavoriteRecommended ==
  Completed =>
    /\ Ids(final_recs) \cap ToSet(UserRow.favorite_movies) = {}
    /\ Ids(tailored_df) \cap ToSet(UserRow.favorite_movies) = {}
    /\ Ids(diverse_df) \cap ToSet(UserRow.favorite_movies) = {}

\* A completed request with rows, for a user one of whose favourites is a
\* catalog item that shares a preferred genre and passes the rating filter.
C1_Witness ==
  /\ Completed
  /\ final_recs # <<>>
  /\ args.n_recommendations > 0
  /\ \E f \in ToSet(UserRow.favorite_movies) :
       /\ f \in 1..Len(movies)
       /\ RatingOf(f) >= args.min_rating
       /\ ToSet(MovieOf(f).genres_list) \cap ToSet(UserRow.preferred_genres) # {}

\* C2: every row of the diversified pool, and every result row taken from
\* it, has a genre list disjoint from the user's preferred_genres.
C2_DiverseSharesNoPreferredGenre ==
  Completed =>
    /\ \A i \in DOMAIN diverse_df :
         ToSet(diverse_df[i].genres_list)
           \cap ToSet(UserRow.preferred_genres) = {}
    /\ \A i \in DOMAIN final_recs :
         final_recs[i].similarity = NoSimilarity =>
           ToSet(MovieOf(final_recs[i].tconst).genres_list)
             \cap ToSet(UserRow.preferred_genres) = {}

\* A completed request that returns a diversified row while the catalog
\* holds rated items with a preferred genre.
C2_Witness ==
  /\ Completed
  /\ FromDiverse(final_recs) # <<>>
  /\ \E i \in DOMAIN movies :
       /\ ToSet(movies[i].genres_list) \cap ToSet(UserRow.preferred_genres) # {}
       /\ Cardinality(ToSet(movies[i].genres_list)) > 1
       /\ movies[i].tconst \notin ToSet(UserRow.favorite_movies)

\* C3: the result of one call holds no two rows with the same tconst.
C3_NoDuplicateIds ==
  Returnedp => Cardinality(Ids(final_recs)) = Len(final_recs)

\* A completed request whose tailored slice and diversified slice both hold
\* the same item.
C3_Witness ==
  /\ Completed
  /\ args.n_recommendations > 0
  /\ RatioInRange
  /\ Ids(HeadRows(tailored_df,
                  args.n_recommendations - FloorDiverse))
       \cap Ids(HeadRows(diverse_df, FloorDiverse)) # {}

\* C4: for n_recommendations > 0 and diversified_ratio in [0,1] the result
\* holds at most n - floor(n * ratio) tailored rows and at most
\* floor(n * ratio) diversified rows, hence at most n rows; ratio 0 gives no
\* diversified row and ratio 1 no tailored row.
C4_SliceSizes ==
  (Completed /\ args.n_recommendations > 0 /\ RatioInRange) =>
    /\ Len(FromTailored(final_recs)) <= args.n_recommendations - FloorDiverse
    /\ Len(FromDiverse(final_recs)) <= FloorDiverse
    /\ Len(final_recs) <= args.n_recommendations
    /\ args.diversified_ratio.num = 0 => FromDiverse(final_recs) = <<>>
    /\ args.diversified_ratio.num = args.diversified_ratio.den =>
         FromTailored(final_recs) = <<>>

\* n = 3 at ratio 1/2: two tailored rows and one diversified row, although
\* both pools hold more.
C4_Witness ==
  /\ Completed
  /\ args.n_recommendations = 3
  /\ args.diversified_ratio = [num |-> 1, den |-> 2]
  /\ Len(FromTailored(final_recs)) = 2
  /\ Len(FromDiverse(final_recs)) = 1
  /\ Len(tailored_df) > 3
  /\ Len(diverse_df) > 3

\* a / sqrt(n2) >= l and a / sqrt(n2) <= l, for a >= 0 and n2 > 0.
SurdGE(a, n2, l) == IF l <= 0 THEN TRUE ELSE a * a >= l * l * n2
SurdLE(a, n2, l) == IF l < 0 THEN FALSE ELSE a * a <= l * l * n2

\* The hundredths c that 0.7*sim + 0.3*((rating_score + runtime_score)/2)
\* rounds to at 2 decimals (both neighbours on an exact half).
\* With y = 100 * score, 20*rt*y = 1400*dot*rt/sqrt(n2) + 3*rs*rt + 300.
AdditiveHundredths(sim, rs, rt) ==
  {c \in 0..100 :
     /\ SurdGE(1400 * sim.dot * rt, sim.n2, 10 * rt * (2 * c - 1) - (3 * rs * rt + 300))
     /\ SurdLE(1400 * sim.dot * rt, sim.n2, 10 * rt * (2 * c + 1) - (3 * rs * rt + 300))}

\* total_score = c / 100.
ScoreIsHundredths(score, c) ==
  score.num * score.num = c * c * score.surd * score.den * score.den

ZeroSimilarity == [dot |-> 0, n2 |-> 1]

\* C5 as stated: every candidate of both pools is scored by the additive
\* formula 0.7*similarity + 0.3*((rating_score + runtime_score)/2) rounded
\* to 2 decimals, with similarity 0 in the diversified pool.
C5_AdditiveRoundedScore ==
  (Completed /\ ValidParams) =>
    /\ \A i \in DOMAIN tailored_df :
         \E c \in AdditiveHundredths(tailored_df[i].similarity,
                                     tailored_df[i].rating_score,
                                     tailored_df[i].runtime_score) :
           ScoreIsHundredths(tailored_df[i].total_score, c)
    /\ \A i \in DOMAIN diverse_df :
         \E c \in AdditiveHundredths(ZeroSimilarity,
                                     diverse_df[i].rating_score,
                                     diverse_df[i].runtime_score) :
           ScoreIsHundredths(diverse_df[i].total_score, c)

\* The item's own values, recomputed from the catalog, the index and the user.
ItemSimilarity(tconst) ==
  CosineSimilarity(MlbTransform(mlb, UserRow.preferred_genres), nn_model[tconst])
ItemRuntimeDen(tconst) ==
  1 + Abs(MovieOf(tconst).runtimeMinutes - UserRow.average_watch_time)

\* C5 as amended: a tailored candidate's total_score is the product
\* similarity * rating_score * runtime_score and a diversified candidate's
\* is rating_score * runtime_score (no similarity factor), neither rounded,
\* with rating_score = averageRating/10 (0 when absent) and
\* runtime_score = 1/(1 + |runtimeMinutes - average_watch_time|).
C5_MultiplicativeScore ==
  Completed =>
    /\ \A i \in DOMAIN tailored_df :
         LET t == tailored_df[i].tconst IN
         ScoreEq(tailored_df[i].total_score,
                 [num |-> ItemSimilarity(t).dot * RatingOf(t),
                  surd |-> ItemSimilarity(t).n2, den |-> ItemRuntimeDen(t)])
    /\ \A i \in DOMAIN diverse_df :
         LET t == diverse_df[i].tconst IN
         ScoreEq(diverse_df[i].total_score,
                 [num |-> RatingOf(t), surd |-> 1, den |-> ItemRuntimeDen(t)])

\* Both pools hold a candidate with a positive score.
C5_Witness ==
  /\ Completed
  /\ \E i \in DOMAIN tailored_df : tailored_df[i].total_score.num > 0
  /\ \E i \in DOMAIN diverse_df : diverse_df[i].total_score.num > 0
  /\ \E i \in DOMAIN tailored_df : tailored_df[i].similarity.n2 > 1

\* C6: every returned row has averageRating >= min_rating, a rating absent
\* from the catalog counting as 0.
C6_MinRatingRespected ==
  Completed =>
    \A i \in DOMAIN final_recs :
      /\ final_recs[i].averageRating >= args.min_rating
      /\ RatingOf(final_recs[i].tconst) >= args.min_rating
      /\ final_recs[i].averageRating = RatingOf(final_recs[i].tconst)

\* Rows are returned under a positive min_rating while the neighbour query
\* and the diversified selection both met items rated below it.
C6_Witness ==
  /\ Completed
  /\ args.min_rating > 0
  /\ args.n_recommendations > 0
  /\ FromTailored(final_recs) # <<>>
  /\ FromDiverse(final_recs) # <<>>
  /\ \E i \in DOMAIN movies :
       /\ movies[i].averageRating = NaN
       /\ movies[i].tconst \notin ToSet(UserRow.favorite_movies)
       /\ ToSet(movies[i].genres_list) \cap ToSet(UserRow.preferred_genres) # {}
  /\ \E i \in DOMAIN movies :
       /\ RatingOf(i) < args.min_rating
       /\ ToSet(movies[i].genres_list) \cap ToSet(UserRow.preferred_genres) = {}

\* C7: a request for a user_id absent from the user store fails with the
\* classified error UserNotFound, raised at user resolution, and returns no
\* rows.
C7_UnknownUserIsUserNotFound ==
  (Returnedp /\ ValidParams /\ ~UserKnown) =>
    /\ outcome = "UserNotFound"
    /\ final_recs = <<>>

\* What the code does for such a request: the IndexError of .iloc[0] on the
\* empty selection, at user resolution; no pool is built, no row returned.
UnknownUserIsIndexError ==
  (Returnedp /\ ~UserKnown) =>
    /\ outcome = "IndexError"
    /\ tailored_df = <<>>
    /\ diverse_df = <<>>
    /\ final_recs = <<>>

\* A request for an absent user has returned, on a catalog the neighbour
\* query accepts.
UnknownUserReturned ==
  /\ Returnedp
  /\ ~UserKnown
  /\ Len(movies) >= N_NEIGHBORS
  /\ args.n_recommendations > 0

\* C8: a request with n_recommendations <= 0 or diversified_ratio outside
\* [0,1] fails with InvalidParameters and returns no rows (stated for the
\* requests that no other failure stops: a known user, and a catalog the
\* neighbour query accepts).
C8_InvalidParametersRejected ==
  (/\ Returnedp
   /\ UserKnown
   /\ Len(movies) >= N_NEIGHBORS
   /\ (args.n_recommendations <= 0 \/ ~RatioInRange)) =>
    /\ outcome = "InvalidParameters"
    /\ final_recs = <<>>

\* C9: on a catalog of fewer than 200 items a request with valid parameters
\* for a known user completes without error, its neighbour query using all
\* catalog items.
C9_SmallCatalogCompletes ==
  (Returnedp /\ ValidParams /\ UserKnown /\ Len(movies) < N_NEIGHBORS) =>
    outcome = "ok"

\* C10: a call changes neither the catalog, the encoder, the index nor the
\* user store, and a request evaluated again returns what its first
\* evaluation returned.
RepeatSame ==
  (Returnedp /\ memo.stage >= 1 /\ memo.args = args) =>
    memo.returned = [outcome |-> outcome, rows |-> Returned(final_recs)]

C10_CallsLeaveStateAndRepeat ==
  [][/\ movies' = movies
     /\ mlb' = mlb
     /\ nn_model' = nn_model
     /\ df_users' = df_users
     /\ RepeatSame']_vars

\* The first request, answered with rows, has been evaluated again after a
\* different request.
C10_Witness ==
  /\ Completed
  /\ memo.stage = 3
  /\ memo.args = args
  /\ final_recs # <<>>

====
